---- MODULE Spec2Model ----
(***************************************************************************)
(* Street Tree Planting Assistant (src/main.py): the benefit model, the    *)
(* in-memory scenario store and the projection aggregator.                 *)
(*                                                                         *)
(* Numbers.  The program computes with floats; the model computes the same *)
(* expressions exactly, on integers in these units:                        *)
(*   dbh_in, dbh growth         1/20 inch                                  *)
(*   canopy_k_m_per_in          1/20 m per inch                            *)
(*   canopy radius              1/400 m         (k * dbh)                  *)
(*   canopy area                pi/160000 m^2   (radius * radius)          *)
(*   carbon_kg_per_in_dbh       1/10 kg per inch                           *)
(*   carbon                     1/200 kg        (coefficient * dbh)        *)
(*   stormwater, pollution      coefficient * area                         *)
(*   planting_year in a payload 1/10 year (so that int() has something to  *)
(*                              truncate); stored planting_year in years   *)
(*   lon, lat                   whole units                                *)
(***************************************************************************)
EXTENDS Integers, Sequences, FiniteSets, TLC

VARIABLES
  planted_trees,  \* SCENARIO["planted_trees"]: insertion-ordered dict, as a sequence of trees
  now,            \* what int(time.time()*1000) returned last
  issued,         \* history: every identifier an add has generated so far
  nops,           \* history: number of requests handled so far
  last,           \* history: the last request and its response
  upd,            \* a PATCH handler in progress (concurrent specification)
  proj,           \* a projection handler in progress (concurrent specification)
  obs             \* what the last GET /api/scenario returned (concurrent specification)

vars == <<planted_trees, now, issued, nops, last, upd, proj, obs>>

----------------------------------------------------------------------------
\* Bounds of the model.

\* The largest store an add is tried on.
MaxTrees == 2
\* The clock reads 0 to MaxTime milliseconds.
MaxTime == 1
\* The number of requests in one behaviour.
MaxOps == 3

----------------------------------------------------------------------------
\* Species library

SPECIES_DB ==
  << [species_id |-> "red_maple", dbh_growth_in_per_year |-> 7,
      canopy_k_m_per_in |-> 9, carbon_kg_per_in_dbh |-> 30,
      stormwater_l_per_m2_canopy |-> 45, pollution_g_per_m2_canopy |-> 12],
     [species_id |-> "london_plane", dbh_growth_in_per_year |-> 10,
      canopy_k_m_per_in |-> 11, carbon_kg_per_in_dbh |-> 42,
      stormwater_l_per_m2_canopy |-> 55, pollution_g_per_m2_canopy |-> 14],
     [species_id |-> "ginkgo", dbh_growth_in_per_year |-> 5,
      canopy_k_m_per_in |-> 7, carbon_kg_per_in_dbh |-> 22,
      stormwater_l_per_m2_canopy |-> 35, pollution_g_per_m2_canopy |-> 9] >>

SpeciesIds == {SPECIES_DB[i].species_id : i \in 1..Len(SPECIES_DB)}

SPECIES_BY_ID ==
  [sid \in SpeciesIds |->
     SPECIES_DB[CHOOSE i \in 1..Len(SPECIES_DB) : SPECIES_DB[i].species_id = sid]]

----------------------------------------------------------------------------
\* Utility / modeling

Max(a, b) == IF a >= b THEN a ELSE b

\* The 0.5 m floor of the canopy radius, in 1/400 m.
RadiusFloor == 200

canopy_radius_m(species_id, dbh_in) ==
  Max(RadiusFloor, SPECIES_BY_ID[species_id].canopy_k_m_per_in * Max(0, dbh_in))

canopy_area_m2(radius_m) == radius_m * radius_m

\* annual_benefits with the carbon of the diameter as given, not clamped.
annual_benefits_unclamped(species_id, dbh_in) ==
  LET s == SPECIES_BY_ID[species_id]
      r == canopy_radius_m(species_id, dbh_in)
      a == canopy_area_m2(r)
  IN  [canopy_radius_m       |-> r,
       canopy_area_m2        |-> a,
       carbon_kg_per_year    |-> s.carbon_kg_per_in_dbh * dbh_in,
       stormwater_l_per_year |-> s.stormwater_l_per_m2_canopy * a,
       pollution_g_per_year  |-> s.pollution_g_per_m2_canopy * a]

annual_benefits(species_id, dbh_in) ==
  LET s == SPECIES_BY_ID[species_id]
      r == canopy_radius_m(species_id, dbh_in)
      a == canopy_area_m2(r)
  IN  [canopy_radius_m       |-> r,
       canopy_area_m2        |-> a,
       carbon_kg_per_year    |-> s.carbon_kg_per_in_dbh * Max(0, dbh_in),
       stormwater_l_per_year |-> s.stormwater_l_per_m2_canopy * a,
       pollution_g_per_year  |-> s.pollution_g_per_m2_canopy * a]

project_tree(species_id, dbh_in, years) ==
  LET s == SPECIES_BY_ID[species_id]
      dbh_t == dbh_in + s.dbh_growth_in_per_year * years
  IN  annual_benefits(species_id, dbh_t)

----------------------------------------------------------------------------
\* Request payloads.  A payload maps each field name to what the JSON body
\* holds there: nothing, a number, a string, or a value that float()/int()
\* reject ("abc", null, a list).

Absent == [k |-> "absent", v |-> 0]
Bad == [k |-> "bad", v |-> 0]
Num(n) == [k |-> "num", v |-> n]
NoStr == [k |-> "absent", v |-> ""]
Str(s) == [k |-> "str", v |-> s]

FieldNames == {"lon", "lat", "dbh_in", "planting_year", "species_id"}

\* The names of the fields a payload holds ("f" in payload).
Supplied(payload) == {f \in FieldNames : payload[f].k # "absent"}

\* float(x): the number itself; ValueError/TypeError on anything else.
PyFloat(x) == [ok |-> x.k = "num", v |-> IF x.k = "num" THEN x.v ELSE 0]

\* int(x) of a number given in tenths: truncation towards zero.
PyInt(x) ==
  [ok |-> x.k = "num",
   v  |-> IF x.k # "num" THEN 0
          ELSE IF x.v >= 0 THEN x.v \div 10 ELSE -((-x.v) \div 10)]

\* str(x) of a string is the string.
PyStr(x) == x.v

\* payload[f]: KeyError when the field is absent.
Required(x) == IF x.k = "absent" THEN Bad ELSE x

\* payload.get(f, default)
GetOr(x, default) == IF x.k = "absent" THEN default ELSE x

\* The defaults of add_planted_tree: dbh_in 2.0 inches, planting_year 2026.
DefaultDbh == 40
DefaultYear == 2026

----------------------------------------------------------------------------
\* The dict SCENARIO["planted_trees"], in insertion order.

Keys(store) == {store[i].id : i \in 1..Len(store)}

IndexOf(store, tid) == CHOOSE i \in 1..Len(store) : store[i].id = tid

DictGet(store, tid) == store[IndexOf(store, tid)]

\* d[tid] = tree: a new key goes last, an existing key keeps its place.
DictSet(store, tid, tree) ==
  IF tid \in Keys(store)
  THEN [store EXCEPT ![IndexOf(store, tid)] = tree]
  ELSE Append(store, tree)

\* del d[tid]
DictDel(store, tid) ==
  LET Keep(t) == t.id # tid IN SelectSeq(store, Keep)

----------------------------------------------------------------------------
\* POST /api/scenario/trees

\* f"planted_{int(time.time()*1000)}_{len(SCENARIO['planted_trees'])+1}": the two
\* numbers, which the formatted string determines and is determined by.
make_tid(clock, store) == <<clock, Len(store) + 1>>

NoTid == <<-1, 0>>

AddCall(store, clock, payload) ==
  LET lon  == PyFloat(Required(payload.lon))
      lat  == PyFloat(Required(payload.lat))
      sid  == PyStr(GetOr(payload.species_id, Str("red_maple")))
      dbh  == PyFloat(GetOr(payload.dbh_in, Num(DefaultDbh)))
      year == PyInt(GetOr(payload.planting_year, Num(10 * DefaultYear)))
      tid  == make_tid(clock, store)
  IN  IF ~(lon.ok /\ lat.ok /\ dbh.ok /\ year.ok)
      THEN [store |-> store, status |-> "bad_payload", tid |-> NoTid]
      ELSE IF sid \notin SpeciesIds
      THEN [store |-> store, status |-> "unknown_species", tid |-> NoTid]
      ELSE [store  |-> DictSet(store, tid,
                        [id |-> tid, lon |-> lon.v, lat |-> lat.v,
                         species_id |-> sid, dbh_in |-> dbh.v,
                         planting_year |-> year.v,
                         benefits |-> annual_benefits(sid, dbh.v)]),
            status |-> "ok", tid |-> tid]

----------------------------------------------------------------------------
\* PATCH /api/scenario/trees/{tree_id}

\* The statements of the handler after the lookup, in program order.
UpdateSteps == <<"lon", "lat", "dbh_in", "planting_year", "species_id", "benefits">>

\* update_step with the species assigned before it is looked up.
update_step_unchecked(t, payload, step) ==
  LET Same(e) == [t |-> t, err |-> e]
      Set(u) == [t |-> u, err |-> "none"]
      Num1(f) == PyFloat(payload[f])
  IN  CASE step \in {"lon", "lat", "dbh_in"} ->
             IF payload[step].k = "absent" THEN Same("none")
             ELSE IF Num1(step).ok THEN Set([t EXCEPT ![step] = Num1(step).v])
             ELSE Same("bad_value")
        [] step = "planting_year" ->
             IF payload.planting_year.k = "absent" THEN Same("none")
             ELSE LET c == PyInt(payload.planting_year)
                  IN  IF c.ok THEN Set([t EXCEPT !.planting_year = c.v])
                      ELSE Same("bad_value")
        [] step = "species_id" ->
             IF payload.species_id.k = "absent" THEN Same("none")
             ELSE Set([t EXCEPT !.species_id = PyStr(payload.species_id)])
        [] step = "benefits" ->
             IF t.species_id \notin SpeciesIds THEN Same("key_error")
             ELSE Set([t EXCEPT !.benefits = annual_benefits(t.species_id, t.dbh_in)])

\* update_step with the snapshot recomputed only when the species changes.
update_step_lazy(t, payload, step) ==
  LET Same(e) == [t |-> t, err |-> e]
      Set(u) == [t |-> u, err |-> "none"]
      Num1(f) == PyFloat(payload[f])
  IN  CASE step \in {"lon", "lat", "dbh_in"} ->
             IF payload[step].k = "absent" THEN Same("none")
             ELSE IF Num1(step).ok THEN Set([t EXCEPT ![step] = Num1(step).v])
             ELSE Same("bad_value")
        [] step = "planting_year" ->
             IF payload.planting_year.k = "absent" THEN Same("none")
             ELSE LET c == PyInt(payload.planting_year)
                  IN  IF c.ok THEN Set([t EXCEPT !.planting_year = c.v])
                      ELSE Same("bad_value")
        [] step = "species_id" ->
             IF payload.species_id.k = "absent" THEN Same("none")
             ELSE LET sid == PyStr(payload.species_id)
                  IN  IF sid \notin SpeciesIds THEN Same("unknown_species")
                      ELSE Set([t EXCEPT !.species_id = sid])
        [] step = "benefits" ->
             IF payload.species_id.k = "absent" THEN Same("none")
             ELSE Set([t EXCEPT !.benefits = annual_benefits(t.species_id, t.dbh_in)])

\* One statement on the tree t (the dict the store holds): the tree after it and
\* the exception it raised, if any.  A conversion that raises assigns nothing.
update_step(t, payload, step) ==
  LET Same(e) == [t |-> t, err |-> e]
      Set(u) == [t |-> u, err |-> "none"]
  IN  CASE step = "lon" ->
             IF payload.lon.k = "absent" THEN Same("none")
             ELSE LET c == PyFloat(payload.lon)
                  IN  IF c.ok THEN Set([t EXCEPT !.lon = c.v]) ELSE Same("bad_value")
        [] step = "lat" ->
             IF payload.lat.k = "absent" THEN Same("none")
             ELSE LET c == PyFloat(payload.lat)
                  IN  IF c.ok THEN Set([t EXCEPT !.lat = c.v]) ELSE Same("bad_value")
        [] step = "dbh_in" ->
             IF payload.dbh_in.k = "absent" THEN Same("none")
             ELSE LET c == PyFloat(payload.dbh_in)
                  IN  IF c.ok THEN Set([t EXCEPT !.dbh_in = c.v]) ELSE Same("bad_value")
        [] step = "planting_year" ->
             IF payload.planting_year.k = "absent" THEN Same("none")
             ELSE LET c == PyInt(payload.planting_year)
                  IN  IF c.ok THEN Set([t EXCEPT !.planting_year = c.v])
                      ELSE Same("bad_value")
        [] step = "species_id" ->
             IF payload.species_id.k = "absent" THEN Same("none")
             ELSE LET sid == PyStr(payload.species_id)
                  IN  IF sid \notin SpeciesIds THEN Same("unknown_species")
                      ELSE Set([t EXCEPT !.species_id = sid])
        [] step = "benefits" ->
             IF t.species_id \notin SpeciesIds THEN Same("key_error")
             ELSE Set([t EXCEPT !.benefits = annual_benefits(t.species_id, t.dbh_in)])

\* The statements from the i-th on, until one raises.
RECURSIVE run_update(_, _, _)
run_update(t, payload, i) ==
  IF i > Len(UpdateSteps) THEN [t |-> t, err |-> "none"]
  ELSE LET r == update_step(t, payload, UpdateSteps[i])
       IN  IF r.err # "none" THEN r ELSE run_update(r.t, payload, i + 1)

UpdateCall(store, tid, payload) ==
  IF tid \notin Keys(store)
  THEN [store |-> store, status |-> "not_found"]
  ELSE LET r == run_update(DictGet(store, tid), payload, 1)
       IN  [store  |-> DictSet(store, tid, r.t),
            status |-> IF r.err = "none" THEN "ok" ELSE r.err]

----------------------------------------------------------------------------
\* DELETE /api/scenario/trees/{tree_id}

\* DeleteCall with the key deleted without the membership test (KeyError).
DeleteCall_unguarded(store, tid) ==
  IF tid \in Keys(store)
  THEN [store |-> DictDel(store, tid), status |-> "ok"]
  ELSE [store |-> store, status |-> "key_error"]

DeleteCall(store, tid) ==
  [store  |-> IF tid \in Keys(store) THEN DictDel(store, tid) ELSE store,
   status |-> "ok"]

----------------------------------------------------------------------------
\* GET /api/scenario/projection

Horizons == {5, 10, 15, 20}

ZeroTotal ==
  [carbon_kg_per_year |-> 0, stormwater_l_per_year |-> 0,
   pollution_g_per_year |-> 0, canopy_area_m2 |-> 0]

\* The accumulators before the loop.
ProjectionStart == [status |-> "ok", total |-> ZeroTotal, per_tree |-> <<>>]

\* projection_step with the canopy area assigned instead of accumulated.
projection_step_assign(t, horizon, acc) ==
  IF t.species_id \notin SpeciesIds THEN [acc EXCEPT !.status = "key_error"]
  ELSE LET p == project_tree(t.species_id, t.dbh_in, horizon)
       IN  [status   |-> "ok",
            total    |-> [carbon_kg_per_year |->
                            acc.total.carbon_kg_per_year + p.carbon_kg_per_year,
                          stormwater_l_per_year |->
                            acc.total.stormwater_l_per_year + p.stormwater_l_per_year,
                          pollution_g_per_year |->
                            acc.total.pollution_g_per_year + p.pollution_g_per_year,
                          canopy_area_m2 |-> p.canopy_area_m2],
            per_tree |-> Append(acc.per_tree, [id |-> t.id, projection |-> p])]

\* The body of the loop, for the tree t.
projection_step(t, horizon, acc) ==
  IF t.species_id \notin SpeciesIds THEN [acc EXCEPT !.status = "key_error"]
  ELSE LET p == project_tree(t.species_id, t.dbh_in, horizon)
       IN  [status   |-> "ok",
            total    |-> [carbon_kg_per_year |->
                            acc.total.carbon_kg_per_year + p.carbon_kg_per_year,
                          stormwater_l_per_year |->
                            acc.total.stormwater_l_per_year + p.stormwater_l_per_year,
                          pollution_g_per_year |->
                            acc.total.pollution_g_per_year + p.pollution_g_per_year,
                          canopy_area_m2 |->
                            acc.total.canopy_area_m2 + p.canopy_area_m2],
            per_tree |-> Append(acc.per_tree, [id |-> t.id, projection |-> p])]

RECURSIVE projection_loop(_, _, _, _)
projection_loop(store, horizon, i, acc) ==
  IF i > Len(store) \/ acc.status # "ok" THEN acc
  ELSE projection_loop(store, horizon, i + 1, projection_step(store[i], horizon, acc))

ProjectCall(store, horizon) ==
  IF horizon \notin Horizons
  THEN [status |-> "bad_horizon", total |-> ZeroTotal, per_tree |-> <<>>]
  ELSE projection_loop(store, horizon, 1, ProjectionStart)

----------------------------------------------------------------------------
\* The requests the model sends.

MkPayload(lon, lat, dbh, year, sid) ==
  [lon |-> lon, lat |-> lat, dbh_in |-> dbh, planting_year |-> year, species_id |-> sid]

\* Bodies of POST: with and without the required lon, with and without the
\* defaulted fields, a sapling diameter, an unknown species.
AddPayloads ==
  {MkPayload(lon, lat, dbh, year, sid) :
     lon \in {Absent, Num(1)}, lat \in {Num(1)},
     dbh \in {Absent, Num(10)},
     year \in {Absent},
     sid \in {NoStr, Str("ginkgo"), Str("oak")}}

\* Bodies of PATCH: every choice of at most two fields, with values that
\* convert and values that do not, a negative diameter, a fractional year, a
\* known and an unknown species.
UpdatePayloads ==
  {p \in {MkPayload(lon, lat, dbh, year, sid) :
            lon \in {Absent, Bad, Num(2)}, lat \in {Absent, Num(2)},
            dbh \in {Absent, Num(-20), Num(20)},
            year \in {Absent, Bad, Num(20275)},
            sid \in {NoStr, Str("london_plane"), Str("oak")}} :
     Cardinality(Supplied(p)) <= 2}

\* Horizons asked for: the allowed ones and one that is not.
HorizonInputs == Horizons \cup {7}

\* An identifier that no add generates.
UnknownTid == <<0, 0>>

\* Identifiers asked for: every one ever generated, and one never generated.
TidInputs == issued \cup {UnknownTid}

----------------------------------------------------------------------------
\* State

Idle == [pc |-> "idle"]

NoObs == [seen |-> FALSE, trees |-> <<>>, half_updated |-> FALSE]

Response(op, status, tid, fields, res) ==
  [op |-> op, status |-> status, tid |-> tid, fields |-> fields,
   horizon |-> res.horizon, total |-> res.total, per_tree |-> res.per_tree]

NoResult == [horizon |-> 0, total |-> ZeroTotal, per_tree |-> <<>>]

Init ==
  /\ planted_trees = <<>>
  /\ now = 0
  /\ issued = {}
  /\ nops = 0
  /\ last = Response("start", "ok", NoTid, {}, NoResult)
  /\ upd = Idle
  /\ proj = Idle
  /\ obs = NoObs

----------------------------------------------------------------------------
\* The handlers, each run from its first statement to its response: what a
\* request does to the store, the clock reading and the response.

\* clock is what int(time.time()*1000) returns to this request: no earlier
\* than what it returned to the request before.
add_planted_tree(payload, clock) ==
  /\ Len(planted_trees) < MaxTrees
  /\ LET r == AddCall(planted_trees, clock, payload)
     IN  /\ planted_trees' = r.store
         /\ issued' = IF r.status = "ok" THEN issued \cup {r.tid} ELSE issued
         /\ now' = IF r.status = "ok" THEN clock ELSE now
         /\ last' = Response("add", r.status, r.tid, Supplied(payload), NoResult)

update_planted_tree(tree_id, payload) ==
  /\ LET r == UpdateCall(planted_trees, tree_id, payload)
     IN  /\ planted_trees' = r.store
         /\ last' = Response("update", r.status, tree_id, Supplied(payload), NoResult)
  /\ UNCHANGED <<now, issued>>

delete_planted_tree(tree_id) ==
  /\ LET r == DeleteCall(planted_trees, tree_id)
     IN  /\ planted_trees' = r.store
         /\ last' = Response("remove", r.status, tree_id, {}, NoResult)
  /\ UNCHANGED <<now, issued>>

\* scenario_projection with the grown diameter and its benefits written back
\* to the tree.
scenario_projection_writes(horizon) ==
  /\ LET r == ProjectCall(planted_trees, horizon)
         Grown(t) == [t EXCEPT
                        !.dbh_in = @ + SPECIES_BY_ID[t.species_id].dbh_growth_in_per_year
                                        * horizon,
                        !.benefits = project_tree(t.species_id, t.dbh_in, horizon)]
     IN  /\ last' = Response("project", r.status, NoTid, {},
                             [horizon |-> horizon, total |-> r.total,
                              per_tree |-> r.per_tree])
         /\ planted_trees' = IF r.status = "ok"
                             THEN [i \in 1..Len(planted_trees) |-> Grown(planted_trees[i])]
                             ELSE planted_trees
  /\ UNCHANGED <<now, issued>>

scenario_projection(horizon) ==
  /\ LET r == ProjectCall(planted_trees, horizon)
     IN  last' = Response("project", r.status, NoTid, {},
                          [horizon |-> horizon, total |-> r.total,
                           per_tree |-> r.per_tree])
  /\ UNCHANGED <<planted_trees, now, issued>>

----------------------------------------------------------------------------
\* Single-writer access: at most MaxOps requests, one after the other.

Counted ==
  /\ nops < MaxOps
  /\ nops' = nops + 1
  /\ UNCHANGED <<upd, proj, obs>>

AddRequest ==
  \E payload \in AddPayloads, clock \in now..MaxTime :
    Counted /\ add_planted_tree(payload, clock)

UpdateRequest ==
  \E tree_id \in TidInputs, payload \in UpdatePayloads :
    Counted /\ update_planted_tree(tree_id, payload)

DeleteRequest ==
  \E tree_id \in TidInputs : Counted /\ delete_planted_tree(tree_id)

ProjectionRequest ==
  \E horizon \in HorizonInputs : Counted /\ scenario_projection(horizon)

Next == AddRequest \/ UpdateRequest \/ DeleteRequest \/ ProjectionRequest

Spec == Init /\ [][Next]_vars

----------------------------------------------------------------------------
\* Single-writer access, the requests that change the key set only: any number
\* of adds and removes.

KeysAdd ==
  \E payload \in AddPayloads, clock \in now..MaxTime :
    add_planted_tree(payload, clock) /\ UNCHANGED <<nops, upd, proj, obs>>

KeysDelete ==
  \E tree_id \in TidInputs :
    delete_planted_tree(tree_id) /\ UNCHANGED <<nops, upd, proj, obs>>

NextKeys == KeysAdd \/ KeysDelete

SpecKeys == Init /\ [][NextKeys]_vars

----------------------------------------------------------------------------
\* The benefit model on its own: a store holding one tree of any species and
\* any diameter from -MaxEvalDbh to MaxEvalDbh, on which annual_benefits,
\* project_tree (0 to MaxEvalYears years) and the projection are evaluated.

MaxEvalDbh == 30
MaxEvalYears == 20

InitEval ==
  /\ \E sid \in SpeciesIds, dbh \in (-MaxEvalDbh)..MaxEvalDbh :
       LET r == AddCall(<<>>, 0, MkPayload(Num(1), Num(1), Num(dbh), Absent, Str(sid)))
       IN  /\ planted_trees = r.store
           /\ issued = {r.tid}
           /\ last = Response("add", r.status, r.tid, {"lon", "lat", "dbh_in", "species_id"},
                              NoResult)
  /\ now = 0
  /\ nops = 1
  /\ upd = Idle
  /\ proj = Idle
  /\ obs = NoObs

\* annual_benefits and project_tree called on the stored tree.
benefit_eval(years) ==
  /\ LET t == planted_trees[1]
     IN  last' = [op |-> "eval", status |-> "ok", years |-> years, dbh_in |-> t.dbh_in,
                  annual |-> annual_benefits(t.species_id, t.dbh_in),
                  projected |-> project_tree(t.species_id, t.dbh_in, years)]
  /\ UNCHANGED <<planted_trees, now, issued>>

EvalCall ==
  \E years \in 0..MaxEvalYears :
    benefit_eval(years) /\ UNCHANGED <<nops, upd, proj, obs>>

EvalProjection ==
  \E horizon \in HorizonInputs :
    scenario_projection(horizon) /\ UNCHANGED <<nops, upd, proj, obs>>

NextEval == EvalCall \/ EvalProjection

SpecEval == InitEval /\ [][NextEval]_vars

----------------------------------------------------------------------------
\* Concurrent request handling.  The handlers are plain functions, which the
\* framework runs on a pool of threads; nothing in them takes a lock.  A PATCH
\* and a projection advance one statement at a time, and the other requests
\* (one dict operation each) run between any two of their statements.

\* The number of requests in one behaviour of the concurrent specification.
MaxConcOps == 3

\* The in-progress PATCH has assigned dbh_in or species_id of the stored tree
\* tid and has not yet recomputed its snapshot.
HalfUpdated(tid) ==
  /\ upd.pc = "run"
  /\ upd.attached
  /\ upd.tid = tid
  /\ upd.wrote

Begun ==
  /\ nops < MaxConcOps
  /\ nops' = nops + 1

ConcAdd ==
  \E payload \in AddPayloads, clock \in now..MaxTime :
    /\ Begun
    /\ add_planted_tree(payload, clock)
    \* d[tid] = tree on a key the PATCH holds the old dict of: the PATCH goes
    \* on writing to the old dict, which the store no longer holds
    /\ upd' = IF /\ upd.pc = "run"
                 /\ last'.status = "ok"
                 /\ last'.tid = upd.tid
              THEN [upd EXCEPT !.attached = FALSE]
              ELSE upd
    /\ proj' = IF /\ proj.pc = "loop"
                  /\ last'.status = "ok"
                  /\ last'.tid \notin Keys(planted_trees)
               THEN [proj EXCEPT !.changed = TRUE]
               ELSE proj
    /\ UNCHANGED obs

ConcDelete ==
  \E tree_id \in TidInputs :
    /\ Begun
    /\ delete_planted_tree(tree_id)
    /\ upd' = IF upd.pc = "run" /\ upd.tid = tree_id
              THEN [upd EXCEPT !.attached = FALSE]
              ELSE upd
    \* the iterator's place is a place in the dict's table: an entry deleted
    \* before it leaves the entry it is at the same
    /\ proj' = IF proj.pc = "loop" /\ tree_id \in Keys(planted_trees)
               THEN [proj EXCEPT !.changed = TRUE,
                                 !.i = IF IndexOf(planted_trees, tree_id) < @
                                       THEN @ - 1 ELSE @]
               ELSE proj
    /\ UNCHANGED obs

\* GET /api/scenario: list(SCENARIO["planted_trees"].values())
get_scenario ==
  /\ Begun
  /\ obs' = [seen |-> TRUE, trees |-> planted_trees,
             half_updated |-> \E i \in 1..Len(planted_trees) :
                                 HalfUpdated(planted_trees[i].id)]
  /\ last' = Response("get", "ok", NoTid, {}, NoResult)
  /\ UNCHANGED <<planted_trees, now, issued, upd, proj>>

\* The PATCH handler up to t = SCENARIO["planted_trees"][tree_id].
UpdateBegin ==
  \E tree_id \in TidInputs, payload \in UpdatePayloads :
    /\ upd.pc = "idle"
    /\ Begun
    /\ IF tree_id \notin Keys(planted_trees)
       THEN /\ last' = Response("update", "not_found", tree_id, Supplied(payload), NoResult)
            /\ upd' = upd
       ELSE /\ upd' = [pc |-> "run", tid |-> tree_id, payload |-> payload, i |-> 1,
                       attached |-> TRUE, t |-> DictGet(planted_trees, tree_id),
                       wrote |-> FALSE]
            /\ last' = last
    /\ UNCHANGED <<planted_trees, now, issued, proj, obs>>

\* The next statement of the PATCH handler, on the dict t it holds.
UpdateStep ==
  /\ upd.pc = "run"
  /\ LET step == UpdateSteps[upd.i]
         r == update_step(upd.t, upd.payload, step)
     IN  /\ planted_trees' = IF upd.attached
                             THEN DictSet(planted_trees, upd.tid, r.t)
                             ELSE planted_trees
         /\ IF r.err # "none"
            THEN /\ last' = Response("update", r.err, upd.tid, Supplied(upd.payload),
                                     NoResult)
                 /\ upd' = Idle
            ELSE IF upd.i = Len(UpdateSteps)
            THEN /\ last' = Response("update", "ok", upd.tid, Supplied(upd.payload),
                                     NoResult)
                 /\ upd' = Idle
            ELSE /\ last' = last
                 /\ upd' = [upd EXCEPT
                              !.i = @ + 1,
                              !.t = r.t,
                              !.wrote = @ \/ (step \in {"dbh_in", "species_id"}
                                              /\ r.t # upd.t)]
  /\ UNCHANGED <<now, issued, nops, proj, obs>>

\* The projection handler up to the start of its loop: the iterator notes
\* the size of the dict.
ProjectionBegin ==
  \E horizon \in HorizonInputs :
    /\ proj.pc = "idle"
    /\ Begun
    /\ IF horizon \notin Horizons
       THEN /\ last' = Response("project", "bad_horizon", NoTid, {},
                                [NoResult EXCEPT !.horizon = horizon])
            /\ proj' = proj
       ELSE /\ proj' = [pc |-> "loop", horizon |-> horizon, i |-> 1,
                        len0 |-> Len(planted_trees), acc |-> ProjectionStart,
                        changed |-> FALSE, saw_half_updated |-> FALSE]
            /\ last' = last
    /\ UNCHANGED <<planted_trees, now, issued, upd, obs>>

\* One turn of the loop.  The iterator raises RuntimeError when the size of
\* the dict is not the one it noted.  When keys came and went and the size is
\* the same, the table may have been rebuilt without its deleted entries, and
\* the iterator, which keeps its place in the table, may then be past entries
\* it has not returned: any place from its own on.
ProjectionStep ==
  /\ proj.pc = "loop"
  /\ \E j \in proj.i..(Len(planted_trees) + 1) :
       /\ j = proj.i \/ proj.changed
       /\ IF Len(planted_trees) # proj.len0
          THEN /\ j = proj.i
               /\ last' = Response("project", "runtime_error", NoTid, {},
                                   [NoResult EXCEPT !.horizon = proj.horizon])
               /\ proj' = Idle
          ELSE IF j > Len(planted_trees)
          THEN /\ last' = Response("project", proj.acc.status, NoTid, {},
                                   [horizon |-> proj.horizon, total |-> proj.acc.total,
                                    per_tree |-> proj.acc.per_tree])
               /\ proj' = Idle
          ELSE LET acc == projection_step(planted_trees[j], proj.horizon, proj.acc)
               IN  IF acc.status # "ok"
                   THEN /\ last' = Response("project", acc.status, NoTid, {},
                                            [NoResult EXCEPT !.horizon = proj.horizon])
                        /\ proj' = Idle
                   ELSE /\ last' = last
                        /\ proj' = [proj EXCEPT
                                      !.i = j + 1,
                                      !.acc = acc,
                                      !.saw_half_updated =
                                         @ \/ HalfUpdated(planted_trees[j].id)]
  /\ UNCHANGED <<planted_trees, now, issued, nops, upd, obs>>

NextConc ==
  \/ ConcAdd
  \/ ConcDelete
  \/ get_scenario
  \/ UpdateBegin
  \/ UpdateStep
  \/ ProjectionBegin
  \/ ProjectionStep

SpecConc == Init /\ [][NextConc]_vars

----------------------------------------------------------------------------
\* Properties of the scenario store

TreeIndices == 1..Len(planted_trees)

\* The tree with identifier tid in a store that holds one.
TreeOf(store, tid) == DictGet(store, tid)

\* C1: every tree in the store has a cached snapshot equal to
\* annual_benefits of its stored species and diameter.
SnapshotMatchesFields ==
  \A i \in TreeIndices :
    planted_trees[i].benefits =
      annual_benefits(planted_trees[i].species_id, planted_trees[i].dbh_in)

\* C2: a successful add generates an identifier that no stored tree holds and
\* that no earlier add generated, and the store grows by exactly one tree.
AddGeneratesFreshId ==
  [][(last'.op = "add" /\ last'.status = "ok") =>
       /\ last'.tid \notin Keys(planted_trees)
       /\ last'.tid \notin issued
       /\ Len(planted_trees') = Len(planted_trees) + 1]_vars

\* C3: an update that fails leaves every tree of the store as it was.
FailedUpdateAppliesNothing ==
  [][(last'.op = "update" /\ last'.status # "ok") =>
       planted_trees' = planted_trees]_vars

\* C5: remove never fails; of an absent identifier it leaves the store as it
\* is, of a present one it deletes that tree and no other; after it the
\* identifier is absent, so a second remove changes nothing more.
RemoveIsIdempotent ==
  [][last'.op = "remove" =>
       LET tid == last'.tid
           before == planted_trees
           after == planted_trees'
       IN  /\ last'.status = "ok"
           /\ tid \notin Keys(after)
           /\ DeleteCall(after, tid).store = after
           /\ tid \notin Keys(before) => after = before
           /\ tid \in Keys(before) =>
                /\ Len(after) = Len(before) - 1
                /\ \A i \in 1..Len(before) :
                     before[i].id # tid => \E j \in 1..Len(after) : after[j] = before[i]]_vars

\* C5 witness: a remove of an identifier that was never in the store, on a
\* store that holds trees.
RemoveOfAbsentHappened ==
  /\ last.op = "remove"
  /\ last.tid = UnknownTid
  /\ Len(planted_trees) > 0

\* C6: a projection request, accepted or rejected, leaves the store as it was.
ProjectionIsPureRead ==
  [][last'.op = "project" => planted_trees' = planted_trees]_vars

\* C6 witness: an accepted projection over a store that holds a tree whose
\* projected diameter differs from the stored one.
ProjectionHappened ==
  /\ last.op = "project"
  /\ last.status = "ok"
  /\ Len(last.per_tree) > 0
  /\ \E i \in TreeIndices :
       last.per_tree[i].projection # planted_trees[i].benefits

TotalFields ==
  {"carbon_kg_per_year", "stormwater_l_per_year", "pollution_g_per_year",
   "canopy_area_m2"}

\* The sum of field f over the projections of entries, from the last to the first.
RECURSIVE SumOfField(_, _)
SumOfField(entries, f) ==
  IF entries = <<>> THEN 0
  ELSE entries[Len(entries)].projection[f]
         + SumOfField(SubSeq(entries, 1, Len(entries) - 1), f)

\* C7: a projection at an allowed horizon returns one entry per stored tree,
\* in store order, each the tree's project_tree at that horizon, and each
\* total is the sum of that field over the entries (0 for an empty store).
ProjectionTotalsAreSums ==
  [][(last'.op = "project" /\ last'.horizon \in Horizons) =>
       LET r == last'
           store == planted_trees
       IN  /\ r.status = "ok"
           /\ Len(r.per_tree) = Len(store)
           /\ \A i \in 1..Len(store) :
                /\ r.per_tree[i].id = store[i].id
                /\ r.per_tree[i].projection =
                     project_tree(store[i].species_id, store[i].dbh_in, r.horizon)
           /\ \A f \in TotalFields : r.total[f] = SumOfField(r.per_tree, f)
           /\ store = <<>> => \A f \in TotalFields : r.total[f] = 0]_vars

\* C7 witness: an accepted projection over two trees.
ProjectionOverTwoTrees ==
  /\ last.op = "project"
  /\ last.status = "ok"
  /\ Len(last.per_tree) = 2
  /\ Len(planted_trees) = 2

\* C8: the species of every stored tree is in the catalog, and no request
\* ends in a failed catalog lookup.
SpeciesAlwaysResolves ==
  /\ \A i \in TreeIndices : planted_trees[i].species_id \in SpeciesIds
  /\ last.status # "key_error"

\* C8 witness: an update of a stored tree was rejected for its species.
UnknownSpeciesRejected ==
  /\ last.op = "update"
  /\ last.status = "unknown_species"
  /\ last.tid \in Keys(planted_trees)

\* A step that is a successful update of the diameter only, to another diameter.
IsDbhOnlyUpdate ==
  /\ last'.op = "update"
  /\ last'.status = "ok"
  /\ last'.fields = {"dbh_in"}
  /\ TreeOf(planted_trees', last'.tid).dbh_in # TreeOf(planted_trees, last'.tid).dbh_in

\* What an update of the diameter only leaves as it was: the key set and its
\* order, the target's other fields, every other tree.
DbhOnlyFrame ==
  LET tid == last'.tid
      old == TreeOf(planted_trees, tid)
      new == TreeOf(planted_trees', tid)
  IN  /\ Len(planted_trees') = Len(planted_trees)
      /\ new.id = old.id /\ new.lon = old.lon /\ new.lat = old.lat
      /\ new.species_id = old.species_id /\ new.planting_year = old.planting_year
      /\ \A i \in 1..Len(planted_trees) :
           planted_trees[i].id # tid => planted_trees'[i] = planted_trees[i]

\* C9, as stated: the update changes the snapshot's carbon, stormwater and
\* pollution, and leaves the rest as it was.
DbhOnlyUpdateChangesBenefits ==
  [][IsDbhOnlyUpdate =>
       LET old == TreeOf(planted_trees, last'.tid).benefits
           new == TreeOf(planted_trees', last'.tid).benefits
       IN  /\ new.carbon_kg_per_year # old.carbon_kg_per_year
           /\ new.stormwater_l_per_year # old.stormwater_l_per_year
           /\ new.pollution_g_per_year # old.pollution_g_per_year
           /\ DbhOnlyFrame]_vars

\* C9, amended: the update replaces the snapshot by annual_benefits of the
\* species and the new diameter, whose carbon is that of the old diameter
\* when both diameters clamp to the same value and whose stormwater and
\* pollution are those of the old diameter when both radii are the same (as
\* under the floor); and it leaves the rest as it was.
DbhOnlyUpdateRecomputes ==
  [][IsDbhOnlyUpdate =>
       LET old == TreeOf(planted_trees, last'.tid)
           new == TreeOf(planted_trees', last'.tid)
           was == annual_benefits(old.species_id, old.dbh_in)
       IN  /\ new.benefits = annual_benefits(new.species_id, new.dbh_in)
           /\ Max(0, new.dbh_in) = Max(0, old.dbh_in) =>
                new.benefits.carbon_kg_per_year = was.carbon_kg_per_year
           /\ canopy_radius_m(new.species_id, new.dbh_in)
                = canopy_radius_m(old.species_id, old.dbh_in) =>
                /\ new.benefits.stormwater_l_per_year = was.stormwater_l_per_year
                /\ new.benefits.pollution_g_per_year = was.pollution_g_per_year
           /\ DbhOnlyFrame]_vars

\* C9 witness: a diameter-only update of one of two trees, to a diameter whose
\* canopy radius is the floor.
DbhOnlyUpdateHappened ==
  /\ last.op = "update"
  /\ last.status = "ok"
  /\ last.fields = {"dbh_in"}
  /\ Len(planted_trees) = 2
  /\ TreeOf(planted_trees, last.tid).dbh_in > 0
  /\ TreeOf(planted_trees, last.tid).benefits.canopy_radius_m = RadiusFloor

\* A snapshot with the radius at or above the floor and no negative benefit.
WellFormed(b) ==
  /\ b.canopy_radius_m >= RadiusFloor
  /\ b.carbon_kg_per_year >= 0
  /\ b.stormwater_l_per_year >= 0
  /\ b.pollution_g_per_year >= 0

\* C10: for every species and diameter, negative ones included, annual_benefits
\* and project_tree return a radius of at least the floor and no negative
\* benefit, so do every cached snapshot and every entry of a projection, and
\* project_tree at 0 years is annual_benefits.
BenefitsAreClamped ==
  /\ \A i \in TreeIndices : WellFormed(planted_trees[i].benefits)
  /\ last.op = "eval" =>
       /\ WellFormed(last.annual)
       /\ WellFormed(last.projected)
       /\ last.years = 0 => last.projected = last.annual
  /\ (last.op = "project" /\ last.status = "ok") =>
       \A i \in 1..Len(last.per_tree) : WellFormed(last.per_tree[i].projection)

\* C10 witness: the functions were evaluated at 0 years on a negative diameter.
NegativeDiameterEvaluated ==
  /\ last.op = "eval"
  /\ last.years = 0
  /\ last.dbh_in < 0
  /\ planted_trees[1].dbh_in < 0
  /\ last.annual.carbon_kg_per_year = 0

\* C4: no read of the store, by GET /api/scenario or by the projection loop,
\* sees a tree whose dbh_in or species_id an in-progress update has assigned
\* and whose snapshot it has not yet recomputed, and no add or remove changes
\* the key set while the projection loop iterates.
RequestsAreSerialized ==
  /\ ~obs.half_updated
  /\ proj.pc = "loop" => (~proj.saw_half_updated /\ ~proj.changed)

====
